---- MODULE Spec2Model ----
(***************************************************************************)
(* Model of implementing_alexnet_with_tensorflow.py: a linear script that  *)
(* loads MNIST, pads / expands / replicates the images, splits off a       *)
(* validation subset, declares an AlexNet-style Sequential model, compiles *)
(* it, fits it for a fixed number of epochs and plots the history.         *)
(*                                                                         *)
(* A tensor is a record [shape, data, vmax]: shape is the tuple of its     *)
(* dimensions, data the sequence of sample identities along axis 0 and     *)
(* vmax the largest pixel value.  Pixel contents are not modelled.         *)
(***************************************************************************)
EXTENDS Integers, Sequences, FiniteSets, TLC

\* ---------------------------------------------------------------- bounds
\* largest number of samples that remain for training after the split
MaxTrain == 130
\* largest number of test samples
MaxTest == 2
\* largest offset of the label pattern of the loaded dataset
MaxSeed == 1

\* ------------------------------------------------------ program constants
ImgSide == 28
PixelMax == 255
ValSize == 2000
BatchSize == 64
Epochs == 40
NumClasses == 10

VARIABLES pc, phases, dataset,
          x_train, y_train, x_test, y_test, x_val, y_val,
          layers, input_shape, output_shapes, summary, compiled,
          fitting, epoch, steps, logs, fed, history, axs

vars == <<pc, phases, dataset, x_train, y_train, x_test, y_test, x_val, y_val,
          layers, input_shape, output_shapes, summary, compiled,
          fitting, epoch, steps, logs, fed, history, axs>>

dataVars == <<dataset, x_train, y_train, x_test, y_test, x_val, y_val>>
modelVars == <<layers, input_shape, output_shapes, summary, compiled>>
fitVars == <<fitting, epoch, steps, logs, fed, history>>

\* ------------------------------------------------------------ arithmetic
Min(a, b) == IF a < b THEN a ELSE b
Max(a, b) == IF a > b THEN a ELSE b
CeilDiv(a, b) == (a + b - 1) \div b

RECURSIVE Product(_)
Product(s) == IF s = <<>> THEN 1 ELSE Head(s) * Product(Tail(s))

\* ---------------------------------------------------- the script's order
\* The statements of the script, by source line, in the order they execute.
ScriptFitBeforeCompile ==
    <<31, 33, 34, 36, 37, 39, 40, 42, 43, 44, 45,
      67, 68, 70, 71, 72, 73, 75, 76, 77, 78, 80, 81, 82, 83, 85, 86,
      88, 90, 91, 93, 94, 96, 100, 106, 104,
      110, 111, 112, 113, 114, 115, 116, 117, 118, 119, 120, 121, 122>>

ScriptYValLast ==
    <<31, 33, 34, 36, 37, 39, 40, 42, 44, 45, 43,
      67, 68, 70, 71, 72, 73, 75, 76, 77, 78, 80, 81, 82, 83, 85, 86,
      88, 90, 91, 93, 94, 96, 100, 104, 106,
      110, 111, 112, 113, 114, 115, 116, 117, 118, 119, 120, 121, 122>>

Script ==
    <<31, 33, 34, 36, 37, 39, 40, 42, 43, 44, 45,
      67, 68, 70, 71, 72, 73, 75, 76, 77, 78, 80, 81, 82, 83, 85, 86,
      88, 90, 91, 93, 94, 96, 100, 104, 106,
      110, 111, 112, 113, 114, 115, 116, 117, 118, 119, 120, 121, 122>>

\* pc is the index in Script of the next statement; 0 after an exception
Aborted == pc = 0
Done == pc = Len(Script) + 1
At(line) == pc \in 1..Len(Script) /\ Script[pc] = line
Idx(line) == CHOOSE i \in 1..Len(Script) : Script[i] = line
Executed(line) == pc > Idx(line)

\* The steps (a)..(g) of the script and the statements that belong to each.
Pipeline == <<"load", "preprocess", "split", "declare", "compile", "train", "plot">>

Phase(line) ==
    CASE line = 31 -> "load"
      [] line \in 33..40 -> "preprocess"
      [] line \in 42..45 -> "split"
      [] line \in 67..100 -> "declare"
      [] line = 104 -> "compile"
      [] line = 106 -> "train"
      [] line \in 110..122 -> "plot"

\* the record of the steps entered so far
Log(ph) == IF phases # <<>> /\ phases[Len(phases)] = ph THEN phases
           ELSE Append(phases, ph)

\* statement `line` runs and control moves to the next statement
Step(line) == /\ At(line)
              /\ pc' = pc + 1
              /\ phases' = Log(Phase(line))

\* ------------------------------------------------------------- the data
None == [shape |-> <<>>, data |-> <<>>, vmax |-> 0]
ZeroSample == [split |-> "pad", i |-> 0]
Sample(split, i) == [split |-> split, i |-> i]

\* label of sample i of a dataset whose labels follow pattern `seed`
LabelOf(seed, split, i) ==
    IF split = "train" THEN (3 * i + seed) % NumClasses
    ELSE (7 * i + seed + 1) % NumClasses

\* datasets.mnist.load_data(): n training and m test images of 28 x 28
\* pixels in 0..255, with one label in 0..9 per image
LoadImages(split, n) ==
    [shape |-> <<n, ImgSide, ImgSide>>,
     data |-> [i \in 1..n |-> Sample(split, i)],
     vmax |-> PixelMax]
LoadLabels(seed, split, n) == [i \in 1..n |-> LabelOf(seed, split, i)]

\* tf.pad(t, paddings): paddings[d] = <<before, after>> for dimension d
Pad(t, paddings) ==
    [t EXCEPT
       !.shape = [d \in 1..Len(t.shape) |->
                    t.shape[d] + paddings[d][1] + paddings[d][2]],
       !.data = [i \in 1..paddings[1][1] |-> ZeroSample] \o t.data
                \o [i \in 1..paddings[1][2] |-> ZeroSample]]

\* t / k
Div(t, k) == [t EXCEPT !.vmax = t.vmax \div k]

\* tf.expand_dims(t, axis): a new dimension of size 1 at 0-based `axis`
ExpandDims(t, axis) ==
    [t EXCEPT !.shape = SubSeq(t.shape, 1, axis) \o <<1>>
                        \o SubSeq(t.shape, axis + 1, Len(t.shape))]

\* tf.repeat(t, repeats, axis): every element along `axis` repeated
Repeat(t, repeats, axis) ==
    [t EXCEPT !.shape[axis + 1] = t.shape[axis + 1] * repeats]

\* Python's normalisation of a slice bound for a sequence of length n
SliceBound(i, n) == IF i < 0 THEN Max(i + n, 0) ELSE Min(i, n)

\* s[start:] and s[:stop] on sequences
SeqFromOffByOne(s, start) == SubSeq(s, SliceBound(start, Len(s)) + 2, Len(s))

SeqFrom(s, start) == SubSeq(s, SliceBound(start, Len(s)) + 1, Len(s))

SeqTo(s, stop) == SubSeq(s, 1, SliceBound(stop, Len(s)))

\* t[start:, :, :, :] and t[:stop, :, :, :] on tensors
SliceFrom(t, start) ==
    [t EXCEPT !.data = SeqFrom(t.data, start),
              !.shape[1] = Len(SeqFrom(t.data, start))]
SliceTo(t, stop) ==
    [t EXCEPT !.data = SeqTo(t.data, stop),
              !.shape[1] = Len(SeqTo(t.data, stop))]

\* sizes of the loaded training set
TrainSizes == {ValSize + k : k \in {1, BatchSize, BatchSize + 1, MaxTrain}}

\* line 31
LoadData ==
    /\ Step(31)
    /\ \E n \in TrainSizes, m \in 1..MaxTest, seed \in 0..MaxSeed :
         /\ dataset' = [n |-> n, m |-> m, seed |-> seed]
         /\ x_train' = LoadImages("train", n)
         /\ y_train' = LoadLabels(seed, "train", n)
         /\ x_test' = LoadImages("test", m)
         /\ y_test' = LoadLabels(seed, "test", m)
    /\ UNCHANGED <<x_val, y_val, modelVars, fitVars, axs>>

\* line 33
PadTrain ==
    /\ Step(33)
    /\ x_train' = Div(Pad(x_train, <<<<0, 0>>, <<2, 2>>, <<2, 2>>>>), PixelMax)
    /\ UNCHANGED <<dataset, y_train, x_test, y_test, x_val, y_val,
                   modelVars, fitVars, axs>>

\* line 34
PadTest ==
    /\ Step(34)
    /\ x_test' = Div(Pad(x_test, <<<<0, 0>>, <<2, 2>>, <<2, 2>>>>), PixelMax)
    /\ UNCHANGED <<dataset, x_train, y_train, y_test, x_val, y_val,
                   modelVars, fitVars, axs>>

\* line 36
ExpandTrain ==
    /\ Step(36)
    /\ x_train' = ExpandDims(x_train, 3)
    /\ UNCHANGED <<dataset, y_train, x_test, y_test, x_val, y_val,
                   modelVars, fitVars, axs>>

\* line 37
ExpandTest ==
    /\ Step(37)
    /\ x_test' = ExpandDims(x_test, 3)
    /\ UNCHANGED <<dataset, x_train, y_train, y_test, x_val, y_val,
                   modelVars, fitVars, axs>>

\* line 39
RepeatTrain ==
    /\ Step(39)
    /\ x_train' = Repeat(x_train, 3, 3)
    /\ UNCHANGED <<dataset, y_train, x_test, y_test, x_val, y_val,
                   modelVars, fitVars, axs>>

\* line 40
RepeatTest ==
    /\ Step(40)
    /\ x_test' = Repeat(x_test, 3, 3)
    /\ UNCHANGED <<dataset, x_train, y_train, y_test, x_val, y_val,
                   modelVars, fitVars, axs>>

\* line 42
SplitXVal ==
    /\ Step(42)
    /\ x_val' = SliceFrom(x_train, -ValSize)
    /\ UNCHANGED <<dataset, x_train, y_train, x_test, y_test, y_val,
                   modelVars, fitVars, axs>>

\* line 43
SplitYVal ==
    /\ Step(43)
    /\ y_val' = SeqFrom(y_train, -ValSize)
    /\ UNCHANGED <<dataset, x_train, y_train, x_test, y_test, x_val,
                   modelVars, fitVars, axs>>

\* line 44
SplitXTrain ==
    /\ Step(44)
    /\ x_train' = SliceTo(x_train, -ValSize)
    /\ UNCHANGED <<dataset, y_train, x_test, y_test, x_val, y_val,
                   modelVars, fitVars, axs>>

\* line 45
SplitYTrain ==
    /\ Step(45)
    /\ y_train' = SeqTo(y_train, -ValSize)
    /\ UNCHANGED <<dataset, x_train, x_test, y_test, x_val, y_val,
                   modelVars, fitVars, axs>>

\* ------------------------------------------------------------ the model
NotCompiled == [optimizer |-> "", loss |-> "", metrics |-> <<>>]

\* the lines of the model.add statements after the Resizing layer
AddLines == {70, 71, 72, 73, 75, 76, 77, 78, 80, 81, 82, 83, 85, 86,
             88, 90, 91, 93, 94, 96}

Conv2D(filters, kernel, strides, padding) ==
    [type |-> "Conv2D", filters |-> filters, kernel |-> kernel,
     strides |-> strides, padding |-> padding]
LRN == [type |-> "Lambda", function |-> "local_response_normalization"]
Activation(fn) == [type |-> "Activation", activation |-> fn]
MaxPooling2D(pool, strides) ==
    [type |-> "MaxPooling2D", pool |-> pool, strides |-> strides,
     padding |-> "valid"]
Flatten == [type |-> "Flatten"]
Dense(units, fn) == [type |-> "Dense", units |-> units, activation |-> fn]
\* the rate is kept as a fraction <<numerator, denominator>>
Dropout(rate) == [type |-> "Dropout", rate |-> rate]
Resizing(height, width, interpolation) ==
    [type |-> "Resizing", height |-> height, width |-> width,
     interpolation |-> interpolation]

\* the layer constructed by the model.add statement at `line`
LayerAtNoSecondLRN(line) ==
    CASE line = 68 -> Resizing(224, 224, "bilinear")
      [] line = 70 -> Conv2D(96, 11, 4, "same")
      [] line = 71 -> LRN
      [] line = 72 -> Activation("relu")
      [] line = 73 -> MaxPooling2D(3, 2)
      [] line = 75 -> Conv2D(256, 5, 4, "same")
      [] line = 76 -> Activation("relu")
      [] line = 77 -> Activation("relu")
      [] line = 78 -> MaxPooling2D(3, 2)
      [] line = 80 -> Conv2D(384, 3, 4, "same")
      [] line = 81 -> Activation("relu")
      [] line = 82 -> Conv2D(384, 3, 4, "same")
      [] line = 83 -> Activation("relu")
      [] line = 85 -> Conv2D(256, 3, 4, "same")
      [] line = 86 -> Activation("relu")
      [] line = 88 -> Flatten
      [] line = 90 -> Dense(4096, "relu")
      [] line = 91 -> Dropout(<<1, 2>>)
      [] line = 93 -> Dense(4096, "relu")
      [] line = 94 -> Dropout(<<1, 2>>)
      [] line = 96 -> Dense(10, "softmax")

LayerAtNoSecondDropout(line) ==
    CASE line = 68 -> Resizing(224, 224, "bilinear")
      [] line = 70 -> Conv2D(96, 11, 4, "same")
      [] line = 71 -> LRN
      [] line = 72 -> Activation("relu")
      [] line = 73 -> MaxPooling2D(3, 2)
      [] line = 75 -> Conv2D(256, 5, 4, "same")
      [] line = 76 -> LRN
      [] line = 77 -> Activation("relu")
      [] line = 78 -> MaxPooling2D(3, 2)
      [] line = 80 -> Conv2D(384, 3, 4, "same")
      [] line = 81 -> Activation("relu")
      [] line = 82 -> Conv2D(384, 3, 4, "same")
      [] line = 83 -> Activation("relu")
      [] line = 85 -> Conv2D(256, 3, 4, "same")
      [] line = 86 -> Activation("relu")
      [] line = 88 -> Flatten
      [] line = 90 -> Dense(4096, "relu")
      [] line = 91 -> Dropout(<<1, 2>>)
      [] line = 93 -> Dense(4096, "relu")
      [] line = 94 -> Activation("relu")
      [] line = 96 -> Dense(10, "softmax")

LayerAt(line) ==
    CASE line = 68 -> Resizing(224, 224, "bilinear")
      [] line = 70 -> Conv2D(96, 11, 4, "same")
      [] line = 71 -> LRN
      [] line = 72 -> Activation("relu")
      [] line = 73 -> MaxPooling2D(3, 2)
      [] line = 75 -> Conv2D(256, 5, 4, "same")
      [] line = 76 -> LRN
      [] line = 77 -> Activation("relu")
      [] line = 78 -> MaxPooling2D(3, 2)
      [] line = 80 -> Conv2D(384, 3, 4, "same")
      [] line = 81 -> Activation("relu")
      [] line = 82 -> Conv2D(384, 3, 4, "same")
      [] line = 83 -> Activation("relu")
      [] line = 85 -> Conv2D(256, 3, 4, "same")
      [] line = 86 -> Activation("relu")
      [] line = 88 -> Flatten
      [] line = 90 -> Dense(4096, "relu")
      [] line = 91 -> Dropout(<<1, 2>>)
      [] line = 93 -> Dense(4096, "relu")
      [] line = 94 -> Dropout(<<1, 2>>)
      [] line = 96 -> Dense(10, "softmax")

\* output length of a convolution or pooling window along one dimension
ConvOutFloor(n, window, strides, padding) ==
    IF padding = "same" THEN n \div strides
    ELSE (n - window) \div strides + 1

ConvOut(n, window, strides, padding) ==
    IF padding = "same" THEN CeilDiv(n, strides)
    ELSE (n - window) \div strides + 1

\* the shape (without the batch dimension) a layer produces from `in`
OutputShape(layer, in) ==
    CASE layer.type = "Resizing" -> <<layer.height, layer.width, in[3]>>
      [] layer.type = "Conv2D" ->
           <<ConvOut(in[1], layer.kernel, layer.strides, layer.padding),
             ConvOut(in[2], layer.kernel, layer.strides, layer.padding),
             layer.filters>>
      [] layer.type = "MaxPooling2D" ->
           <<ConvOut(in[1], layer.pool, layer.strides, layer.padding),
             ConvOut(in[2], layer.pool, layer.strides, layer.padding),
             in[3]>>
      [] layer.type = "Flatten" -> <<Product(in)>>
      [] layer.type = "Dense" -> <<layer.units>>
      [] OTHER -> in

\* line 67
Sequential ==
    /\ Step(67)
    /\ layers' = <<>>
    /\ output_shapes' = <<>>
    /\ UNCHANGED <<dataVars, input_shape, summary, compiled, fitVars, axs>>

\* line 68: the first layer declares the model's input shape
AddResizing ==
    /\ Step(68)
    /\ input_shape' = Tail(x_train.shape)
    /\ layers' = Append(layers, LayerAt(68))
    /\ output_shapes' = Append(output_shapes,
                               OutputShape(LayerAt(68), Tail(x_train.shape)))
    /\ UNCHANGED <<dataVars, summary, compiled, fitVars, axs>>

\* lines 70 .. 96
AddLayer ==
    /\ \E line \in AddLines :
         /\ Step(line)
         /\ layers' = Append(layers, LayerAt(line))
         /\ output_shapes' =
              Append(output_shapes,
                     OutputShape(LayerAt(line),
                                 output_shapes[Len(output_shapes)]))
    /\ UNCHANGED <<dataVars, input_shape, summary, compiled, fitVars, axs>>

\* line 100: prints one row per layer, with its output shape
Summary ==
    /\ Step(100)
    /\ summary' = [i \in 1..Len(layers) |->
                     <<layers[i].type, output_shapes[i]>>]
    /\ UNCHANGED <<dataVars, layers, input_shape, output_shapes, compiled,
                   fitVars, axs>>

\* line 104
Compile ==
    /\ Step(104)
    /\ compiled' = [optimizer |-> "adam",
                    loss |-> "sparse_categorical_crossentropy",
                    metrics |-> <<"accuracy">>]
    /\ UNCHANGED <<dataVars, layers, input_shape, output_shapes, summary,
                   fitVars, axs>>

\* ------------------------------------------------------------- training
Range(s) == {s[i] : i \in 1..Len(s)}

\* the samples of mini-batch j when x is cut into batches of batch_size
Batch(x, batch_size, j) ==
    {x.data[i] : i \in ((j - 1) * batch_size + 1)..Min(j * batch_size, Len(x.data))}

\* the samples that take part in the weight updates of one epoch
UpdateSamplesWithVal(x, batch_size) ==
    Range(x.data) \cup Range(x_val.data)

UpdateSamples(x, batch_size) ==
    UNION {Batch(x, batch_size, j) : j \in 1..CeilDiv(Len(x.data), batch_size)}

\* the names under which fit records its per-epoch results: the loss and
\* every compiled metric, and each of them again for the validation data
ValKey(k) == "val_" \o k
MetricKeys(c) ==
    {"loss"} \cup Range(c.metrics)
    \cup {ValKey(k) : k \in {"loss"} \cup Range(c.metrics)}

\* line 106, entry: fit on a model that was never compiled raises
FitBegin ==
    /\ At(106)
    /\ ~fitting
    /\ phases' = Log(Phase(106))
    /\ IF compiled = NotCompiled
       THEN /\ pc' = 0
            /\ UNCHANGED fitVars
       ELSE /\ pc' = pc
            /\ fitting' = TRUE
            /\ epoch' = 0
            /\ steps' = 0
            /\ logs' = [k \in MetricKeys(compiled) |-> <<>>]
            /\ UNCHANGED <<fed, history>>
    /\ UNCHANGED <<dataVars, modelVars, axs>>

\* line 106, one epoch: every batch of x_train updates the weights, then
\* the model is validated on validation_data and the results are recorded
FitEpochUnbounded ==
    /\ At(106)
    /\ fitting
    /\ epoch < Epochs + 1
    /\ epoch' = epoch + 1
    /\ steps' = steps + CeilDiv(Len(x_train.data), BatchSize)
    /\ fed' = [fed EXCEPT !.update = @ \cup UpdateSamples(x_train, BatchSize),
                          !.validate = @ \cup Range(x_val.data)]
    /\ logs' = [k \in DOMAIN logs |-> Append(logs[k], <<k, epoch>>)]
    /\ UNCHANGED <<pc, phases, fitting, history, dataVars, modelVars, axs>>

FitEpoch ==
    /\ At(106)
    /\ fitting
    /\ epoch < Epochs
    /\ epoch' = epoch + 1
    /\ steps' = steps + CeilDiv(Len(x_train.data), BatchSize)
    /\ fed' = [fed EXCEPT !.update = @ \cup UpdateSamples(x_train, BatchSize),
                          !.validate = @ \cup Range(x_val.data)]
    /\ logs' = [k \in DOMAIN logs |-> Append(logs[k], <<k, epoch>>)]
    /\ UNCHANGED <<pc, phases, fitting, history, dataVars, modelVars, axs>>

\* line 106, return: the History object is bound to `history`
FitEnd ==
    /\ At(106)
    /\ fitting
    /\ epoch >= Epochs
    /\ fitting' = FALSE
    /\ history' = logs
    /\ pc' = pc + 1
    /\ UNCHANGED <<phases, epoch, steps, logs, fed, dataVars, modelVars, axs>>

\* ------------------------------------------------------------- plotting
EmptyAxes == [lines |-> <<>>, title |-> "", xlabel |-> "", ylabel |-> "",
              legend |-> <<>>]

\* axs[0] is the first element of the sequence axs
AxisOf(line) == IF line <= 116 THEN 1 ELSE 2

PlotKey(line) ==
    CASE line = 111 -> "loss"
      [] line = 112 -> "val_loss"
      [] line = 117 -> "accuracy"
      [] line = 118 -> "val_accuracy"

\* line 110
Subplots ==
    /\ Step(110)
    /\ axs' = <<EmptyAxes, EmptyAxes>>
    /\ UNCHANGED <<dataVars, modelVars, fitVars>>

\* lines 111, 112, 117, 118: a missing history key raises KeyError
Plot ==
    /\ \E line \in {111, 112, 117, 118} :
         /\ At(line)
         /\ phases' = Log(Phase(line))
         /\ IF PlotKey(line) \in DOMAIN history
            THEN /\ pc' = pc + 1
                 /\ axs' = [axs EXCEPT ![AxisOf(line)].lines =
                              Append(@, [key |-> PlotKey(line),
                                         ydata |-> history[PlotKey(line)]])]
            ELSE /\ pc' = 0
                 /\ UNCHANGED axs
    /\ UNCHANGED <<dataVars, modelVars, fitVars>>

\* lines 113, 119
SetTitle ==
    /\ \E line \in {113, 119} :
         /\ Step(line)
         /\ axs' = [axs EXCEPT ![AxisOf(line)].title =
                      IF line = 113 THEN "Training Loss vs Validation Loss"
                      ELSE "Training Accuracy vs Validation Accuracy"]
    /\ UNCHANGED <<dataVars, modelVars, fitVars>>

\* lines 114, 120
SetXLabel ==
    /\ \E line \in {114, 120} :
         /\ Step(line)
         /\ axs' = [axs EXCEPT ![AxisOf(line)].xlabel = "Epochs"]
    /\ UNCHANGED <<dataVars, modelVars, fitVars>>

\* lines 115, 121
SetYLabel ==
    /\ \E line \in {115, 121} :
         /\ Step(line)
         /\ axs' = [axs EXCEPT ![AxisOf(line)].ylabel =
                      IF line = 115 THEN "Loss" ELSE "Accuracy"]
    /\ UNCHANGED <<dataVars, modelVars, fitVars>>

\* lines 116, 122
Legend ==
    /\ \E line \in {116, 122} :
         /\ Step(line)
         /\ axs' = [axs EXCEPT ![AxisOf(line)].legend = <<"Train", "Val">>]
    /\ UNCHANGED <<dataVars, modelVars, fitVars>>

\* ------------------------------------------------------- specification
Init ==
    /\ pc = 1
    /\ phases = <<>>
    /\ dataset = [n |-> 0, m |-> 0, seed |-> 0]
    /\ x_train = None /\ x_test = None /\ x_val = None
    /\ y_train = <<>> /\ y_test = <<>> /\ y_val = <<>>
    /\ layers = <<>>
    /\ input_shape = <<>>
    /\ output_shapes = <<>>
    /\ summary = <<>>
    /\ compiled = NotCompiled
    /\ fitting = FALSE
    /\ epoch = 0
    /\ steps = 0
    /\ logs = <<>>
    /\ fed = [update |-> {}, validate |-> {}, evaluate |-> {}]
    /\ history = <<>>
    /\ axs = <<>>

Next ==
    \/ LoadData
    \/ PadTrain \/ PadTest
    \/ ExpandTrain \/ ExpandTest
    \/ RepeatTrain \/ RepeatTest
    \/ SplitXVal \/ SplitYVal \/ SplitXTrain \/ SplitYTrain
    \/ Sequential \/ AddResizing \/ AddLayer \/ Summary \/ Compile
    \/ FitBegin \/ FitEpoch \/ FitEnd
    \/ Subplots \/ Plot \/ SetTitle \/ SetXLabel \/ SetYLabel \/ Legend

Spec == Init /\ [][Next]_vars

\* the interpreter runs the script statement by statement until it ends
FairSpec == Spec /\ WF_vars(Next)

\* ====================================================== properties
IsPrefix(a, b) == Len(a) <= Len(b) /\ a = SubSeq(b, 1, Len(a))
SomethingPlotted == \E a \in 1..Len(axs) : axs[a].lines # <<>>
TrainOrig(n) == [i \in 1..n |-> Sample("train", i)]

\* C1: the steps load, preprocess, split, declare, compile, train, plot run
\* exactly once each and in that order; the model is compiled before
\* training starts and nothing is plotted before training has finished.
C1_LinearPipeline ==
    /\ IsPrefix(phases, <<"load", "preprocess", "split", "declare",
                          "compile", "train", "plot">>)
    /\ (fitting \/ epoch > 0) => compiled # NotCompiled
    /\ SomethingPlotted => (~fitting /\ epoch = 40 /\ Executed(106))
    /\ Done => phases = <<"load", "preprocess", "split", "declare",
                          "compile", "train", "plot">>
    /\ ~Aborted

C1_Witness ==
    /\ Done
    /\ Len(phases) = 7
    /\ Len(axs[1].lines) = 2 /\ Len(axs[2].lines) = 2

\* C2: fit runs exactly 40 epochs in batches of 64 and then returns; the
\* history holds one value per epoch under each of loss, val_loss, accuracy
\* and val_accuracy, so every plotted curve has 40 points.
C2_AfterFit ==
    /\ epoch <= 40
    /\ Executed(106) =>
         /\ epoch = 40
         /\ steps = 40 * (((dataset.n - 2000) + 63) \div 64)
         /\ DOMAIN history = {"loss", "val_loss", "accuracy", "val_accuracy"}
         /\ \A k \in DOMAIN history :
              /\ Len(history[k]) = 40
              /\ \A e \in 1..40 : history[k][e] = <<k, e - 1>>
    /\ \A a \in 1..Len(axs) : \A i \in 1..Len(axs[a].lines) :
         Len(axs[a].lines[i].ydata) = 40

C2_FixedEpochs == [](C2_AfterFit) /\ <>(Executed(106) /\ ~fitting)

C2_Witness ==
    /\ Done
    /\ epoch = 40
    /\ steps = 80
    /\ {axs[a].lines[i].key : a \in {1, 2}, i \in {1, 2}}
         = {"loss", "val_loss", "accuracy", "val_accuracy"}

\* C3: once the split is done, the validation subset is the last 2000
\* samples of the loaded training set and the training subset the first
\* N - 2000, they are disjoint, train followed by val is the loaded order,
\* and no sample is lost or duplicated (images and labels alike).
C3_SplitIsPartition ==
    (Executed(45) /\ dataset.n >= 2000) =>
      /\ x_val.data = SubSeq(TrainOrig(dataset.n), dataset.n - 1999, dataset.n)
      /\ x_train.data = SubSeq(TrainOrig(dataset.n), 1, dataset.n - 2000)
      /\ Range(x_val.data) \cap Range(x_train.data) = {}
      /\ x_train.data \o x_val.data = TrainOrig(dataset.n)
      /\ Len(x_val.data) = 2000 /\ x_val.shape[1] = 2000
      /\ Len(x_train.data) = dataset.n - 2000
      /\ x_train.shape[1] = dataset.n - 2000
      /\ Cardinality(Range(x_train.data) \cup Range(x_val.data)) = dataset.n
      /\ y_train \o y_val = LoadLabels(dataset.seed, "train", dataset.n)
      /\ Len(y_val) = 2000

C3_Witness ==
    /\ Executed(45)
    /\ dataset.n = 2065
    /\ Len(x_val.data) = 2000
    /\ Len(x_train.data) = 65

\* C4: after padding, expanding and repeating, every image is 28 x 28 x 3
\* and that is the input shape declared on the first layer.
C4_Images28x28x3 ==
    /\ Executed(40) => /\ Tail(x_train.shape) = <<28, 28, 3>>
                       /\ Tail(x_test.shape) = <<28, 28, 3>>
    /\ Executed(68) => input_shape = <<28, 28, 3>>

\* C5: the first layer resizes to 224 x 224 x 3; every convolution maps a
\* side n to ceil(n / 4) and every pooling to floor((n - 3) / 2) + 1; the
\* tensor entering Flatten is 1 x 1 x 256 and Flatten yields 256 features;
\* every spatial size is at least 1 and every pooling input at least 3.
FlattenIdx == CHOOSE i \in 1..Len(layers) : layers[i].type = "Flatten"

C5_ShapePropagation ==
    Executed(88) =>
      /\ output_shapes[1] = <<224, 224, 3>>
      /\ output_shapes[FlattenIdx - 1] = <<1, 1, 256>>
      /\ output_shapes[FlattenIdx] = <<256>>
      /\ Cardinality({i \in 1..FlattenIdx : layers[i].type = "Conv2D"}) = 5
      /\ Cardinality({i \in 1..FlattenIdx : layers[i].type = "MaxPooling2D"}) = 2
      /\ \A i \in 1..(FlattenIdx - 1) :
           /\ output_shapes[i][1] >= 1 /\ output_shapes[i][2] >= 1
           /\ layers[i].type = "Conv2D" =>
                \A d \in {1, 2} :
                  output_shapes[i][d] = (output_shapes[i - 1][d] + 3) \div 4
           /\ layers[i].type = "MaxPooling2D" =>
                \A d \in {1, 2} :
                  /\ output_shapes[i - 1][d] >= 3
                  /\ output_shapes[i][d] =
                       (output_shapes[i - 1][d] - 3) \div 2 + 1

C5_Witness ==
    /\ Executed(100)
    /\ summary[FlattenIdx] = <<"Flatten", <<256>>>>
    /\ summary[5] = <<"MaxPooling2D", <<27, 27, 96>>>>

\* C6: after training, x_test and y_test are passed to the model to
\* produce a test accuracy.
C6_TestSetEvaluated ==
    Done => /\ fed.evaluate # {}
            /\ fed.evaluate = Range(x_test.data)

\* C7: before Flatten the stack has five convolutions (96, 11), (256, 5),
\* (384, 3), (384, 3), (256, 3); each is followed by a ReLU before the next
\* convolution or Flatten; local response normalization sits exactly
\* between the first and second convolutions and their ReLU; max-pooling
\* sits exactly after the first and second ReLU.
ConvIdx == {i \in 1..FlattenIdx : layers[i].type = "Conv2D"}
ReluIdx == {i \in 1..FlattenIdx :
              layers[i].type = "Activation" /\ layers[i].activation = "relu"}
\* the k-th smallest element of a set of indices
Nth(S, k) == CHOOSE i \in S : Cardinality({j \in S : j < i}) = k - 1

C7_ConvolutionalPart ==
    Executed(88) =>
      /\ Cardinality(ConvIdx) = 5
      /\ [k \in 1..5 |-> <<layers[Nth(ConvIdx, k)].filters,
                           layers[Nth(ConvIdx, k)].kernel>>]
           = <<<<96, 11>>, <<256, 5>>, <<384, 3>>, <<384, 3>>, <<256, 3>>>>
      /\ \A c \in ConvIdx :
           \E r \in ReluIdx :
             /\ r > c
             /\ \A j \in (c + 1)..r : layers[j].type \notin {"Conv2D", "Flatten"}
      /\ {i \in 1..Len(layers) : layers[i].type = "Lambda"}
           = {Nth(ConvIdx, 1) + 1, Nth(ConvIdx, 2) + 1}
      /\ \A i \in 1..Len(layers) :
           layers[i].type = "Lambda" =>
             /\ layers[i].function = "local_response_normalization"
             /\ i + 1 \in ReluIdx
      /\ {i \in 1..Len(layers) : layers[i].type = "MaxPooling2D"}
           = {Nth(ReluIdx, 1) + 1, Nth(ReluIdx, 2) + 1}

C7_Witness ==
    /\ Executed(88)
    /\ Len(layers) = 16
    /\ layers[7].type = "Lambda"

\* C8: after Flatten the model is exactly Dense(4096, relu), Dropout(0.5),
\* Dense(4096, relu), Dropout(0.5), Dense(10, softmax); the output layer is
\* last, has one unit per label class 0..9, and the loss is sparse
\* categorical cross-entropy.
C8_ClassifierHead ==
    /\ Executed(96) =>
         /\ SubSeq(layers, FlattenIdx + 1, Len(layers))
              = << [type |-> "Dense", units |-> 4096, activation |-> "relu"],
                   [type |-> "Dropout", rate |-> <<1, 2>>],
                   [type |-> "Dense", units |-> 4096, activation |-> "relu"],
                   [type |-> "Dropout", rate |-> <<1, 2>>],
                   [type |-> "Dense", units |-> 10, activation |-> "softmax"] >>
         /\ output_shapes[Len(layers)] = <<10>>
         /\ Range(y_train) \cup Range(y_val) \cup Range(y_test) \subseteq 0..9
         /\ Range(y_train) \cup Range(y_val) = 0..9
    /\ Executed(104) => compiled.loss = "sparse_categorical_crossentropy"

C8_Witness ==
    /\ Executed(104)
    /\ Len(layers) = 21
    /\ layers[21].type = "Dense"

\* C9 as stated: at every point of the script each of (x_train, y_train),
\* (x_val, y_val), (x_test, y_test) has equal lengths and index i of the
\* images is the sample whose label is at index i.
LabelOfSample(s) == LabelOf(dataset.seed, s.split, s.i)
IndexAligned(x, y) ==
    \A i \in 1..Min(Len(x.data), Len(y)) : y[i] = LabelOfSample(x.data[i])
Aligned(x, y) == Len(x.data) = Len(y) /\ IndexAligned(x, y)

C9_AlignedAtEveryPoint ==
    /\ Aligned(x_train, y_train)
    /\ Aligned(x_test, y_test)
    /\ Executed(43) => Aligned(x_val, y_val)

\* C9 amended: index i of the images always carries the label at index i;
\* the lengths of x_train and y_train are equal at every point except
\* between lines 44 and 45, those of x_test and y_test always, those of
\* x_val and y_val once both are assigned; validation image j is original
\* sample N - 2000 + j and carries its label.
C9_AlignedExceptMidSplit ==
    /\ IndexAligned(x_train, y_train)
    /\ ~At(45) => Aligned(x_train, y_train)
    /\ At(45) => Len(y_train) = Len(x_train.data) + 2000
    /\ Aligned(x_test, y_test)
    /\ (Executed(42) /\ Executed(43)) =>
         /\ Aligned(x_val, y_val)
         /\ \A j \in 1..2000 :
              /\ x_val.data[j] = Sample("train", dataset.n - 2000 + j)
              /\ y_val[j] = LabelOf(dataset.seed, "train", dataset.n - 2000 + j)
    /\ fitting => /\ Aligned(x_train, y_train)
                  /\ Aligned(x_val, y_val)

C9_Witness ==
    /\ fitting
    /\ epoch = 1
    /\ Len(y_val) = 2000
    /\ Len(y_train) = 64

\* C10: the samples used for weight updates are, in every epoch, exactly
\* the first N - 2000 loaded training samples; none of them is a validation
\* or a test sample; the validation subset is only ever validated on.
C10_NoHeldOutSampleTrained ==
    /\ fed.update \subseteq {Sample("train", i) : i \in 1..(dataset.n - 2000)}
    /\ epoch >= 1 =>
         /\ fed.update = {Sample("train", i) : i \in 1..(dataset.n - 2000)}
         /\ fed.validate = Range(x_val.data)
    /\ fed.update \cap Range(x_val.data) = {}
    /\ fed.update \cap Range(x_test.data) = {}
    /\ fed.validate \cap Range(x_test.data) = {}
    /\ Range(x_val.data) \cap fed.evaluate = {}

C10_Witness ==
    /\ epoch = 40
    /\ Cardinality(fed.update) = 65
    /\ Cardinality(fed.validate) = 2000

====
